---- MODULE Spec2Model ----
(***************************************************************************)
(* SRT server sink (ext/srt/gstsrtserversink.c), the reference-counted    *)
(* GstSRTClient (ext/srt/gstsrt.c) and the SRT client source               *)
(* (ext/srt/gstsrtclientsrc.c).                                            *)
(*                                                                         *)
(* Threads of the model:                                                   *)
(*   - the streaming thread calls gst_srt_server_sink_render;              *)
(*   - the thread created by start runs thread_func, whose loop calls      *)
(*     idle_listen_callback;                                               *)
(*   - the thread iterating the default main context runs srt_send_buffer  *)
(*     (render attaches the idle source with g_source_attach (source,      *)
(*     NULL));                                                             *)
(*   - the state-change thread calls start and stop.                       *)
(* The client list is a GList: priv->clients is the head pointer and each  *)
(* node has a next pointer.  A client has exactly one node, so a node is   *)
(* named by its client.  Memory that has been freed keeps its last         *)
(* contents (stale) or faults when it is used: both outcomes are modelled. *)
(***************************************************************************)
EXTENDS Integers, Sequences, FiniteSets, TLC

(* ---- bounds ---- *)

(* The calls of start, render, fill and set_uri on the two elements and
   the sessions accepted, taken together. *)
MaxEvents == 4

MaxClients == MaxEvents - 1
MaxBuffers == MaxEvents - 1

(* ---- program constants ---- *)
NULL == 0
UIntHalf == 65536

GST_FLOW_OK == "GST_FLOW_OK"
GST_FLOW_ERROR == "GST_FLOW_ERROR"
GST_FLOW_EOS == "GST_FLOW_EOS"

SRT_URI_SCHEME == "srt"
GST_URI_NO_PORT == 0
SRT_ERROR == 0 - 1

ClientIds == 1..MaxClients
BufferIds == 1..MaxBuffers

VARIABLES
  (* element and caller protocol *)
  phase,            \* "null" | "started" | "stopped": what GstBaseSink believes
  nStarts,          \* number of start calls so far
  stopCalls,        \* number of stop calls since the last successful start
  startRet,         \* return value of the last start call
  (* GstSRTServerSinkPrivate *)
  sock,             \* priv->sock: "none" | "open" | "closed" | "error"
  srt_poll_id,      \* priv->srt_poll_id: "none" | "open" | "released" | "error"
  loop,             \* priv->loop != NULL
  thread,           \* priv->thread != NULL
  is_running,       \* the running flag of priv->loop
  t_pc,             \* thread_func: "none" | "entry" | "run" | "exited"
  server_source,    \* "none" | "armed" | "removed" (callback returned FALSE)
  context,          \* priv->context != NULL
  clients,          \* priv->clients: head of the GList (a client id or NULL)
  next,             \* next pointer of each client's list node
  queued_buffers,   \* priv->queued_buffers
  mutex,            \* "free" | "dispatch"
  (* GstSRTClient *)
  life,             \* "none" | "live" | "freed"
  ref_count,        \* guint
  (* default main context *)
  tasks,            \* attached srt_send_buffer idle sources
  (* srt_send_buffer locals *)
  d_pc, d_buffers, d_clients, d_info,
  (* idle_listen_callback locals *)
  a_pc, a_client, a_list,
  (* gst_srt_server_sink_stop position *)
  s_pc,
  (* process state *)
  crashed,
  (* observations *)
  sockCloses,       \* srt_close calls on the current listening socket
  pollReleases,     \* srt_epoll_release calls on the current poll id
  closeN,           \* srt_close calls per session socket
  addedN,           \* "client-added" emissions per session
  removedN,         \* "client-removed" emissions per session
  nRender,          \* number of render calls; the k-th call passes buffer k
  renderRet,        \* return value of the last render call
  recv,             \* per session: the last <<buffer, bytes>> it received
  acceptedAt,       \* nRender when the session's accept unit completed
  lastListen,       \* what the last run of idle_listen_callback met
  begun,            \* last buffer whose dispatch unit has begun
  (* observations of the dispatch unit in progress *)
  mapFailed,        \* buffers whose gst_buffer_map failed
  unitReg,          \* sessions registered when the unit began
  unitAccepted,     \* sessions accepted (srt_accept returned) by then
  unitFailed,       \* sessions whose write failed in the unit
  unitWrites,       \* per session, the writes tried in the unit (up to 2)
  (* URI handler of the server sink *)
  uri,              \* priv->uri
  uriRet,           \* return value of the last set_uri call
  nSetUri,          \* number of set_uri calls on the two elements
  (* GstSrtClientSrcPrivate and its caller *)
  c_phase,          \* "null" | "started" | "stopped": what GstBaseSrc believes
  c_uri,            \* priv->uri
  c_uriRet,         \* return value of the last set_uri call
  c_srt_sock,       \* priv->srt_sock: "none" | "open" | "closed" | "error"
  c_srt_poll_id,    \* priv->srt_poll_id: "none" | "open" | "released" | "error"
  c_startRet,       \* return value of the last start call
  c_calls,          \* number of start and fill calls so far
  c_stopCalls,      \* number of stop calls since the last start
  c_sockCloses,     \* srt_close calls on the current socket
  c_pollReleases,   \* srt_epoll_release calls on the current poll id
  recv_len,         \* <<result>> of srt_recvmsg in the last fill, if called
  fillRet,          \* return value of the last fill call
  fillStep,         \* the step at which the last fill call left
  outbuf            \* the buffer passed to the last fill: [pts, size]

privVars == <<sock, srt_poll_id, loop, thread, is_running, t_pc,
              server_source, context>>
listVars == <<clients, next, life, ref_count>>
dispVars == <<d_pc, d_buffers, d_clients, d_info>>
accVars == <<a_pc, a_client, a_list>>
callVars == <<phase, nStarts, stopCalls, startRet>>
sockObs == <<sockCloses, pollReleases>>
sigObs == <<closeN, addedN, removedN>>
renderObs == <<nRender, renderRet>>
unitObs == <<begun, mapFailed, unitReg, unitAccepted, unitFailed,
            unitWrites>>
accObs == <<acceptedAt, lastListen>>

uriVars == <<uri, uriRet, nSetUri>>
clientVars == <<c_phase, c_uri, c_uriRet, c_srt_sock, c_srt_poll_id,
                c_startRet, c_calls, c_stopCalls, c_sockCloses,
                c_pollReleases, recv_len, fillRet, fillStep, outbuf>>
serverVars == <<callVars, privVars, listVars, queued_buffers, mutex, tasks,
                dispVars, accVars, s_pc, crashed, sockObs, sigObs,
                renderObs, recv, unitObs, accObs>>

vars == <<serverVars, uriVars, clientVars>>

Range(s) == {s[i] : i \in 1..Len(s)}

(* The start calls, render calls and accepted sessions so far. *)
Events ==
  nStarts + nRender + Cardinality({c \in ClientIds : life[c] # "none"})
    + nSetUri + c_calls

(* ---- GList ---- *)

(* The nodes reachable from node n, following next pointers. *)
RECURSIVE ListFrom(_, _)
ListFrom(n, fuel) ==
  IF n = NULL \/ fuel = 0 THEN <<>>
  ELSE <<n>> \o ListFrom(next[n], fuel - 1)

List(n) == ListFrom(n, MaxClients)

Registry == List(clients)

(* A session is registered when its node is reachable from priv->clients. *)
Registered == Range(Registry)

LiveRegistered == {c \in Registered : life[c] = "live"}

(* g_list_append (list, c): the value returned (the head). *)
g_list_append_head(list, c) == IF list = NULL THEN c ELSE list

(* g_list_append (list, c): the next pointers afterwards; the new node is
   linked behind the last node of a non-empty list. *)
g_list_append_next(list, c) ==
  IF list = NULL THEN [next EXCEPT ![c] = NULL]
  ELSE LET l == List(list)
           last == l[Len(l)]
       IN  [next EXCEPT ![c] = NULL, ![last] = c]

(* g_list_remove (list, c): the value returned (the head). *)
g_list_remove_head(list, c) ==
  IF list = c THEN next[c] ELSE list

(* g_list_remove (list, c): the next pointers afterwards; the removed node
   is unlinked and its own next pointer cleared. *)
g_list_remove_next(list, c) ==
  IF c \notin Range(List(list)) THEN next
  ELSE [n \in ClientIds |->
          IF n = c THEN NULL
          ELSE IF n \in Range(List(list)) /\ next[n] = c THEN next[c]
          ELSE next[n]]

(* ---- GstSRTClient ---- *)

(* ref_count is a guint (32 bits), held as <<high half, low half>> of 16
   bits each. *)
UInt(n) == <<n \div UIntHalf, n % UIntHalf>>

UIntPositive(rc) == rc[1] > 0 \/ rc[2] > 0

(* gst_srt_client_new: the reference count of a new client. *)
NewCount == UInt(1)

(* gst_srt_client_unref: the reference count afterwards; the decrement of
   zero wraps. *)
UnrefCount(rc) ==
  IF rc[2] > 0 THEN <<rc[1], rc[2] - 1>>
  ELSE <<(rc[1] - 1) % UIntHalf, UIntHalf - 1>>

(* gst_srt_client_unref: whether this call frees the client and closes its
   socket. *)
UnrefFrees(rc) == ~UIntPositive(UnrefCount(rc))

(* ---- URIs ---- *)

(* The strings passed to set_uri. *)
UriStrings ==
  {"srt://127.0.0.1:7001", "srt://127.0.0.1", "srt:///stream",
   "srt://example.org:7001", "udp://127.0.0.1:7001", "not a uri"}

(* gst_uri_from_string: scheme, host and port of the string; a string that
   is no URI gives no GstUri, whose scheme, host and port read as unset. *)
gst_uri_from_string(str) ==
  CASE str = "srt://127.0.0.1:7001" ->
         [scheme |-> "srt", host |-> "127.0.0.1", port |-> 7001]
    [] str = "srt://127.0.0.1:7000" ->
         [scheme |-> "srt", host |-> "127.0.0.1", port |-> 7000]
    [] str = "srt://127.0.0.1" ->
         [scheme |-> "srt", host |-> "127.0.0.1", port |-> GST_URI_NO_PORT]
    [] str = "srt:///stream" ->
         [scheme |-> "srt", host |-> "", port |-> GST_URI_NO_PORT]
    [] str = "srt://example.org:7001" ->
         [scheme |-> "srt", host |-> "example.org", port |-> 7001]
    [] str = "udp://127.0.0.1:7001" ->
         [scheme |-> "udp", host |-> "127.0.0.1", port |-> 7001]
    [] OTHER -> [scheme |-> "", host |-> "", port |-> GST_URI_NO_PORT]

SRT_DEFAULT_URI == gst_uri_from_string("srt://127.0.0.1:7001")

(* SRT_DEFAULT_URI of the client source. *)
ClientDefaultUri == gst_uri_from_string("srt://127.0.0.1:7000")

(* A set_uri that accepts every scheme. *)
SchemeAcceptedAny(u) == TRUE

(* The test of set_uri: g_strcmp0 (scheme, SRT_URI_SCHEME) == 0. *)
SchemeAccepted(u) == u.scheme = SRT_URI_SCHEME

(* The first test of start: host != NULL and port != GST_URI_NO_PORT (an
   unset host is the empty string here). *)
HasHostAndPort(u) == u.host # "" /\ u.port # GST_URI_NO_PORT

(* g_inet_socket_address_new_from_string accepts only an address in
   numeric form. *)
ParsesAsAddress(u) == u.host = "127.0.0.1"

(* The steps of start that can fail with the URI u: the two tests on the
   URI are decided by u, the calls into the SRT library and the thread
   creation fail or succeed on their own. *)
FailPointsFor(u, points) ==
  IF ~HasHostAndPort(u) THEN {"host"}
  ELSE IF ~ParsesAsAddress(u) THEN {"parse"}
  ELSE points \ {"host", "parse"}

(* The size of the buffer handed to fill. *)
BlockSize == MaxEvents

Init ==
  /\ uri = SRT_DEFAULT_URI /\ uriRet = TRUE /\ nSetUri = 0
  /\ c_phase = "null"
  /\ c_uri = ClientDefaultUri /\ c_uriRet = TRUE
  /\ c_srt_sock = "none" /\ c_srt_poll_id = "none"
  /\ c_startRet = TRUE
  /\ c_calls = 0 /\ c_stopCalls = 0
  /\ c_sockCloses = 0 /\ c_pollReleases = 0
  /\ recv_len = <<>> /\ fillRet = "none" /\ fillStep = "none"
  /\ outbuf = [pts |-> "none", size |-> BlockSize]
  /\ phase = "null" /\ nStarts = 0 /\ stopCalls = 0 /\ startRet = TRUE
  /\ sock = "none" /\ srt_poll_id = "none"
  /\ loop = FALSE /\ thread = FALSE /\ server_source = "none"
  /\ is_running = FALSE /\ t_pc = "none"
  /\ context = FALSE
  /\ clients = NULL
  /\ next = [c \in ClientIds |-> NULL]
  /\ queued_buffers = <<>>
  /\ mutex = "free"
  /\ life = [c \in ClientIds |-> "none"]
  /\ ref_count = [c \in ClientIds |-> UInt(0)]
  /\ tasks = 0
  /\ d_pc = "idle" /\ d_buffers = <<>> /\ d_clients = NULL /\ d_info = <<>>
  /\ a_pc = "idle" /\ a_client = NULL /\ a_list = NULL
  /\ s_pc = "idle"
  /\ crashed = FALSE
  /\ sockCloses = 0 /\ pollReleases = 0
  /\ closeN = [c \in ClientIds |-> 0]
  /\ addedN = [c \in ClientIds |-> 0]
  /\ removedN = [c \in ClientIds |-> 0]
  /\ nRender = 0
  /\ renderRet = "none"
  /\ recv = [c \in ClientIds |-> <<>>]
  /\ acceptedAt = [c \in ClientIds |-> 0]
  /\ lastListen = "none"
  /\ begun = 0
  /\ mapFailed = {}
  /\ unitReg = {}
  /\ unitAccepted = {}
  /\ unitFailed = {}
  /\ unitWrites = [c \in ClientIds |-> 0]

(* ---- gst_srt_server_sink_start ---- *)

(* The step of start that fails ("none": every step succeeds). *)
FailPoints ==
  {"none", "host", "parse", "socket", "poll", "family", "bind", "listen",
   "thread"}

(* Steps after which the socket has been created. *)
AfterSocket == {"none", "poll", "family", "bind", "listen", "thread"}

(* Steps at which start closes the socket again before leaving. *)
ClosesSocket == {"poll", "family", "bind", "listen"}

(* Steps after which the poll id has been created. *)
AfterPoll == {"none", "family", "bind", "listen", "thread"}

(* Steps after which context, source and loop have been created. *)
AfterLoop == {"none", "thread"}

(* The value start returns: ret is initialised TRUE and set FALSE on the
   failure paths that assign it. *)
StartRet(failAt) ==
  IF failAt \in {"host", "parse", "socket", "family", "bind", "listen",
                 "thread"}
  THEN FALSE ELSE TRUE

Start(failAt) ==
  /\ ~crashed
  /\ phase \in {"null", "stopped"}
  /\ s_pc = "idle"
  /\ Events < MaxEvents
  /\ failAt \in FailPointsFor(uri, FailPoints)
  /\ failAt \in AfterLoop => mutex = "free"
  /\ nStarts' = nStarts + 1
  /\ startRet' = StartRet(failAt)
  /\ phase' = IF StartRet(failAt) THEN "started" ELSE phase
  /\ stopCalls' = IF StartRet(failAt) THEN 0 ELSE stopCalls
  /\ sock' = IF failAt = "socket" THEN "error"
             ELSE IF failAt \in ClosesSocket THEN "closed"
             ELSE IF failAt \in AfterSocket THEN "open"
             ELSE sock
  /\ sockCloses' = IF failAt \in ClosesSocket THEN 1
                   ELSE IF failAt \in AfterSocket \/ failAt = "socket" THEN 0
                   ELSE sockCloses
  /\ srt_poll_id' = IF failAt = "poll" THEN "error"
                    ELSE IF failAt \in AfterPoll THEN "open"
                    ELSE srt_poll_id
  /\ pollReleases' = IF failAt \in AfterPoll \/ failAt = "poll" THEN 0
                     ELSE pollReleases
  /\ context' = IF failAt \in AfterLoop THEN TRUE ELSE context
  /\ server_source' = IF failAt \in AfterLoop THEN "armed" ELSE server_source
  /\ loop' = IF failAt \in AfterLoop THEN TRUE ELSE loop
  /\ is_running' = IF failAt \in AfterLoop THEN TRUE ELSE is_running
  /\ thread' = IF failAt = "none" THEN TRUE
               ELSE IF failAt = "thread" THEN FALSE
               ELSE thread
  /\ t_pc' = IF failAt = "none" THEN "entry"
             ELSE IF failAt = "thread" THEN "none"
             ELSE t_pc
  /\ UNCHANGED <<listVars, queued_buffers, mutex, tasks, dispVars, accVars,
                 s_pc, crashed, sigObs, renderObs, recv, unitObs, accObs>>
  /\ UNCHANGED <<uriVars, clientVars>>

(* ---- gst_srt_server_sink_render ---- *)

(* A render that queues and schedules on every call. *)
RenderQueuesAlways(queue) == TRUE

(* The condition under which render queues the buffer and attaches an idle
   source. *)
RenderQueues(queue) == queue = <<>>

(* A render that reports an error when no session is registered. *)
RenderRetNeedsPeer(queue, registry) ==
  IF registry = <<>> THEN GST_FLOW_ERROR ELSE GST_FLOW_OK

(* The value render returns. *)
RenderRet(queue, registry) == GST_FLOW_OK

(* GstBaseSink calls render on the streaming thread between a successful
   start and stop.  The whole body runs with the mutex held. *)
Render ==
  /\ ~crashed
  /\ phase = "started"
  /\ s_pc = "idle"
  /\ mutex = "free"
  /\ Events < MaxEvents
  /\ LET buffer == nRender + 1 IN
       /\ nRender' = buffer
       /\ IF RenderQueues(queued_buffers)
          THEN /\ queued_buffers' = Append(queued_buffers, buffer)
               /\ tasks' = tasks + 1
          ELSE UNCHANGED <<queued_buffers, tasks>>
       /\ renderRet' = RenderRet(queued_buffers, Registry)
  /\ UNCHANGED <<callVars, privVars, listVars, mutex, dispVars, accVars,
                 s_pc, crashed, sockObs, sigObs, recv, unitObs, accObs>>
  /\ UNCHANGED <<uriVars, clientVars>>

(* ---- srt_send_buffer (idle source on the default main context) ---- *)

(* The bytes held by a buffer; buffers differ in their bytes. *)
Bytes(buffer) == <<"bytes", buffer>>

(* A mapping that exposes the bytes of the first buffer rendered, whatever
   buffer is mapped. *)
MapInfoOfFirst(buffer) == Bytes(1)

(* gst_buffer_map: the bytes the mapping exposes (info.data, info.size). *)
MapInfo(buffer) == Bytes(buffer)

(* The nodes g_list_remove (list, c) reads while it looks for c. *)
RECURSIVE VisitedFrom(_, _, _)
VisitedFrom(n, c, fuel) ==
  IF n = NULL \/ fuel = 0 THEN {}
  ELSE IF n = c THEN {n}
  ELSE {n} \cup VisitedFrom(next[n], c, fuel - 1)

Visited(list, c) == VisitedFrom(list, c, MaxClients)

(* A cursor that steps over the session behind client c. *)
AdvanceSkips(c) == IF next[c] = NULL THEN NULL ELSE next[next[c]]

(* The client pointer the dispatcher moves to after visiting client c: the
   next pointer is read before the write is attempted. *)
Advance(c) == next[c]

(* Lines 370-371: the two list heads are read before the mutex is taken. *)
SendBufferBegin ==
  /\ ~crashed
  /\ tasks > 0
  /\ d_pc = "idle"
  /\ d_buffers' = queued_buffers
  /\ d_clients' = clients
  /\ d_pc' = "lock"
  /\ begun' = IF queued_buffers = <<>> THEN begun
              ELSE queued_buffers[Len(queued_buffers)]
  /\ mapFailed' = {}
  /\ unitReg' = LiveRegistered
  /\ unitAccepted' = {c \in ClientIds : life[c] # "none"}
  /\ unitFailed' = {}
  /\ unitWrites' = [c \in ClientIds |-> 0]
  /\ UNCHANGED <<callVars, privVars, listVars, queued_buffers, mutex, tasks,
                 d_info, accVars, s_pc, crashed, sockObs, sigObs, renderObs,
                 recv, accObs>>
  /\ UNCHANGED <<uriVars, clientVars>>

(* Line 376: g_mutex_lock. *)
SendBufferLock ==
  /\ ~crashed
  /\ d_pc = "lock"
  /\ mutex = "free"
  /\ mutex' = "dispatch"
  /\ d_pc' = "loop"
  /\ UNCHANGED <<callVars, privVars, listVars, queued_buffers, tasks,
                 d_buffers, d_clients, d_info, accVars, s_pc, crashed,
                 sockObs, sigObs, renderObs, recv, unitObs, accObs>>
  /\ UNCHANGED <<uriVars, clientVars>>

(* Lines 377-394: take the next buffer and map it; a buffer that cannot be
   mapped is skipped. *)
SendBufferMap(mapped) ==
  /\ ~crashed
  /\ d_pc = "loop"
  /\ d_buffers # <<>>
  /\ IF mapped
     THEN /\ d_info' = MapInfo(Head(d_buffers))
          /\ d_pc' = "send"
          /\ UNCHANGED <<d_buffers, mapFailed>>
     ELSE /\ d_buffers' = Tail(d_buffers)
          /\ mapFailed' = mapFailed \cup {Head(d_buffers)}
          /\ UNCHANGED <<d_info, d_pc>>
  /\ UNCHANGED <<callVars, privVars, listVars, queued_buffers, mutex, tasks,
                 d_clients, accVars, s_pc, crashed, sockObs, sigObs,
                 renderObs, recv, begun, unitReg, unitAccepted, unitFailed,
                 unitWrites, accObs>>
  /\ UNCHANGED <<uriVars, clientVars>>

(* srt_sendmsg2 on a socket that has been closed returns SRT_ERROR; on an
   open socket either outcome is possible. *)
SendOutcomes(c) == IF closeN[c] > 0 THEN {FALSE} ELSE BOOLEAN

(* Lines 396-409: one iteration of the client loop. *)
SendBufferSend(sent) ==
  /\ ~crashed
  /\ d_pc = "send"
  /\ d_clients # NULL
  /\ LET client == d_clients
         buffer == Head(d_buffers)
     IN
       /\ sent \in SendOutcomes(client)
       /\ d_clients' = Advance(client)
       /\ unitWrites' = [unitWrites EXCEPT ![client] = IF @ < 2 THEN @ + 1
                                                     ELSE @]
       /\ IF sent
          THEN /\ recv' = [recv EXCEPT ![client] = <<buffer, d_info>>]
               /\ UNCHANGED <<listVars, sigObs, unitFailed>>
          ELSE /\ unitFailed' = unitFailed \cup {client}
               /\ clients' = g_list_remove_head(clients, client)
               /\ next' = g_list_remove_next(clients, client)
               /\ removedN' = [removedN EXCEPT ![client] = @ + 1]
               /\ ref_count' = [ref_count EXCEPT ![client] = UnrefCount(@)]
               /\ IF UnrefFrees(ref_count[client])
                  THEN /\ closeN' = [closeN EXCEPT ![client] = @ + 1]
                       /\ life' = [life EXCEPT ![client] = "freed"]
                  ELSE UNCHANGED <<closeN, life>>
               /\ UNCHANGED <<addedN, recv>>
  /\ UNCHANGED <<callVars, privVars, queued_buffers, mutex, tasks, d_pc,
                 d_buffers, d_info, accVars, s_pc, crashed, sockObs,
                 renderObs, begun, mapFailed, unitReg, unitAccepted,
                 accObs>>
  /\ UNCHANGED <<uriVars, clientVars>>

(* Line 411: the client loop has ended; unmap and go to the next buffer. *)
SendBufferUnmap ==
  /\ ~crashed
  /\ d_pc = "send"
  /\ d_clients = NULL
  /\ d_buffers' = Tail(d_buffers)
  /\ d_info' = <<>>
  /\ d_pc' = "loop"
  /\ UNCHANGED <<callVars, privVars, listVars, queued_buffers, mutex, tasks,
                 d_clients, accVars, s_pc, crashed, sockObs, sigObs,
                 renderObs, recv, unitObs, accObs>>
  /\ UNCHANGED <<uriVars, clientVars>>

(* A dispatch unit that leaves the queue as it found it. *)
QueueKept(queue) == queue

(* Lines 414-416: g_list_free_full and the assignment of NULL leave the
   queue empty. *)
QueueFreed(queue) == <<>>

(* Lines 414-417: free the queue and unlock. *)
SendBufferFinish ==
  /\ ~crashed
  /\ d_pc = "loop"
  /\ d_buffers = <<>>
  /\ queued_buffers' = QueueFreed(queued_buffers)
  /\ mutex' = "free"
  /\ d_pc' = "return"
  /\ UNCHANGED <<callVars, privVars, listVars, tasks, d_buffers, d_clients,
                 d_info, accVars, s_pc, crashed, sockObs, sigObs, renderObs,
                 recv, unitObs, accObs>>
  /\ UNCHANGED <<uriVars, clientVars>>

(* Line 419: returning FALSE removes the idle source. *)
SendBufferReturn ==
  /\ ~crashed
  /\ d_pc = "return"
  /\ tasks' = tasks - 1
  /\ d_pc' = "idle"
  /\ mapFailed' = {}
  /\ unitReg' = {}
  /\ unitAccepted' = {}
  /\ unitFailed' = {}
  /\ unitWrites' = [c \in ClientIds |-> 0]
  /\ UNCHANGED <<callVars, privVars, listVars, queued_buffers, mutex,
                 d_buffers, d_clients, d_info, accVars, s_pc, crashed,
                 sockObs, sigObs, renderObs, recv, begun, accObs>>
  /\ UNCHANGED <<uriVars, clientVars>>

(* ---- idle_listen_callback (idle source on priv->context) ---- *)

(* What srt_epoll_wait and srt_accept can report.  A poll id that is not
   open only yields a poll error. *)
ListenOutcomes ==
  IF srt_poll_id = "open" /\ sock = "open"
  THEN {"timeout", "pollerr", "acceptfail", "accepted"}
  ELSE {"pollerr"}

(* A callback that also gives up after a timeout. *)
ListenRetTimeoutStops(outcome) ==
  IF outcome \in {"pollerr", "acceptfail", "timeout"} THEN FALSE ELSE TRUE

(* The callback's return value: TRUE keeps the idle source, FALSE removes
   it. *)
ListenRet(outcome) ==
  IF outcome \in {"pollerr", "acceptfail"} THEN FALSE ELSE TRUE

FreshClients == {c \in ClientIds : life[c] = "none"}

NewClient == CHOOSE c \in FreshClients : \A d \in FreshClients : c <= d

(* Lines 195-221: wait, accept, gst_srt_client_new, and the part of
   g_list_append that walks the list read from priv->clients and links the
   new node behind its last node. *)
IdleListen(outcome) ==
  /\ ~crashed
  /\ t_pc = "run"
  /\ server_source = "armed"
  /\ a_pc = "idle"
  /\ outcome \in ListenOutcomes
  /\ outcome = "accepted" => Events < MaxEvents
  /\ server_source' = IF ListenRet(outcome) THEN server_source ELSE "removed"
  /\ lastListen' = outcome
  /\ IF outcome = "accepted"
     THEN LET c == NewClient IN
            /\ life' = [life EXCEPT ![c] = "live"]
            /\ ref_count' = [ref_count EXCEPT ![c] = NewCount]
            /\ a_client' = c
            /\ a_list' = clients
            /\ next' = g_list_append_next(clients, c)
            /\ a_pc' = "store"
     ELSE UNCHANGED <<life, ref_count, next, accVars>>
  /\ UNCHANGED <<callVars, sock, srt_poll_id, loop, thread, is_running,
                 t_pc, context, clients, queued_buffers, mutex, tasks,
                 dispVars, s_pc, crashed, sockObs, sigObs, renderObs, recv,
                 unitObs, acceptedAt>>
  /\ UNCHANGED <<uriVars, clientVars>>

(* Lines 221-227: the store of g_list_append's result into priv->clients,
   then the "client-added" emission. *)
IdleListenStore ==
  /\ ~crashed
  /\ a_pc = "store"
  /\ clients' = g_list_append_head(a_list, a_client)
  /\ addedN' = [addedN EXCEPT ![a_client] = @ + 1]
  /\ acceptedAt' = [acceptedAt EXCEPT ![a_client] = nRender]
  /\ a_pc' = "idle"
  /\ a_client' = NULL
  /\ a_list' = NULL
  /\ UNCHANGED <<callVars, privVars, next, life, ref_count, queued_buffers,
                 mutex, tasks, dispVars, s_pc, crashed, sockObs, closeN,
                 removedN, renderObs, recv, unitObs, lastListen>>
  /\ UNCHANGED <<uriVars, clientVars>>

(* ---- thread_func ---- *)

(* The new thread enters g_main_loop_run, which marks the loop as running
   before its first iteration. *)
ThreadRun ==
  /\ ~crashed
  /\ t_pc = "entry"
  /\ t_pc' = "run"
  /\ is_running' = TRUE
  /\ UNCHANGED <<callVars, sock, srt_poll_id, loop, thread, server_source,
                 context, listVars, queued_buffers, mutex, tasks, dispVars,
                 accVars, s_pc, crashed, sockObs, sigObs, renderObs, recv,
                 unitObs, accObs>>
  /\ UNCHANGED <<uriVars, clientVars>>

(* g_main_loop_run returns between two iterations once the running flag is
   clear, and thread_func returns. *)
ThreadExit ==
  /\ ~crashed
  /\ t_pc = "run"
  /\ ~is_running
  /\ a_pc = "idle"
  /\ t_pc' = "exited"
  /\ UNCHANGED <<callVars, sock, srt_poll_id, loop, thread, is_running,
                 server_source, context, listVars, queued_buffers, mutex,
                 tasks, dispVars, accVars, s_pc, crashed, sockObs, sigObs,
                 renderObs, recv, unitObs, accObs>>
  /\ UNCHANGED <<uriVars, clientVars>>

(* ---- gst_srt_server_sink_stop ---- *)

(* Line 454: g_list_foreach (priv->clients, srt_emit_client_removed). *)
StopNotifyBody ==
  /\ ~crashed
  /\ s_pc = "idle"
  /\ stopCalls' = stopCalls + 1
  /\ removedN' = [c \in ClientIds |->
                    IF c \in Registered THEN removedN[c] + 1
                    ELSE removedN[c]]
  /\ s_pc' = "free"
  /\ UNCHANGED <<phase, nStarts, startRet, privVars, listVars,
                 queued_buffers, mutex, tasks, dispVars, accVars, crashed,
                 sockObs, closeN, addedN, renderObs, recv, unitObs,
                 accObs>>
  /\ UNCHANGED <<uriVars, clientVars>>

(* GstBaseSink calls stop once after a successful start. *)
StopNotify == phase = "started" /\ StopNotifyBody

(* A second call of stop on the stopped element. *)
StopAgainNotify == phase = "stopped" /\ stopCalls = 1 /\ StopNotifyBody

(* Line 455: g_list_free_full (priv->clients, gst_srt_client_unref); the
   nodes are freed and priv->clients keeps its value. *)
StopFree ==
  /\ ~crashed
  /\ s_pc = "free"
  /\ ref_count' = [c \in ClientIds |->
                     IF c \in Registered THEN UnrefCount(ref_count[c])
                     ELSE ref_count[c]]
  /\ closeN' = [c \in ClientIds |->
                  IF c \in Registered /\ UnrefFrees(ref_count[c])
                  THEN closeN[c] + 1 ELSE closeN[c]]
  /\ life' = [c \in ClientIds |->
                IF c \in Registered /\ UnrefFrees(ref_count[c])
                THEN "freed" ELSE life[c]]
  /\ s_pc' = "close"
  /\ UNCHANGED <<callVars, privVars, clients, next, queued_buffers, mutex,
                 tasks, dispVars, accVars, crashed, sockObs, addedN,
                 removedN, renderObs, recv, unitObs, accObs>>
  /\ UNCHANGED <<uriVars, clientVars>>

(* Lines 458-463: srt_epoll_remove_usock, srt_epoll_release, srt_close,
   and, if priv->loop is set, g_main_loop_quit, which clears the running
   flag of the loop. *)
StopClose ==
  /\ ~crashed
  /\ s_pc = "close"
  /\ pollReleases' = IF srt_poll_id \in {"open", "released"}
                     THEN pollReleases + 1 ELSE pollReleases
  /\ srt_poll_id' = IF srt_poll_id = "open" THEN "released" ELSE srt_poll_id
  /\ sockCloses' = IF sock \in {"open", "closed"}
                   THEN sockCloses + 1 ELSE sockCloses
  /\ sock' = IF sock = "open" THEN "closed" ELSE sock
  /\ is_running' = IF loop THEN FALSE ELSE is_running
  /\ s_pc' = "join"
  /\ UNCHANGED <<callVars, loop, thread, t_pc, server_source, context,
                 listVars,
                 queued_buffers, mutex, tasks, dispVars, accVars, crashed,
                 sigObs, renderObs, recv, unitObs, accObs>>
  /\ UNCHANGED <<uriVars, clientVars>>

(* Lines 464-476: g_thread_join returns once thread_func has returned;
   then the loop, the thread, the source and the context are dropped. *)
StopJoin ==
  /\ ~crashed
  /\ s_pc = "join"
  /\ (loop /\ thread) => t_pc = "exited"
  /\ loop' = FALSE
  /\ is_running' = IF loop THEN FALSE ELSE is_running
  /\ thread' = IF loop THEN FALSE ELSE thread
  /\ t_pc' = IF loop THEN "none" ELSE t_pc
  /\ server_source' = "none"
  /\ context' = FALSE
  /\ phase' = "stopped"
  /\ s_pc' = "idle"
  /\ UNCHANGED <<nStarts, stopCalls, startRet, sock, srt_poll_id, listVars,
                 queued_buffers, mutex, tasks, dispVars, accVars, crashed,
                 sockObs, sigObs, renderObs, recv, unitObs, accObs>>
  /\ UNCHANGED <<uriVars, clientVars>>

(* ---- gst_srt_server_sink_uri_set_uri ---- *)

ServerSetUri(str) ==
  /\ ~crashed
  /\ Events < MaxEvents
  /\ nSetUri' = nSetUri + 1
  /\ LET parsed_uri == gst_uri_from_string(str) IN
       IF SchemeAccepted(parsed_uri)
       THEN uri' = parsed_uri /\ uriRet' = TRUE
       ELSE uri' = uri /\ uriRet' = FALSE
  /\ UNCHANGED <<serverVars, clientVars>>

(* ---- gst_srt_client_src_uri_set_uri ---- *)

ClientSetUri(str) ==
  /\ Events < MaxEvents
  /\ nSetUri' = nSetUri + 1
  /\ LET parsed_uri == gst_uri_from_string(str) IN
       IF SchemeAccepted(parsed_uri)
       THEN c_uri' = parsed_uri /\ c_uriRet' = TRUE
       ELSE c_uri' = c_uri /\ c_uriRet' = FALSE
  /\ UNCHANGED <<c_phase, c_srt_sock, c_srt_poll_id, c_startRet, c_calls,
                 c_stopCalls, c_sockCloses, c_pollReleases, recv_len,
                 fillRet, fillStep, outbuf>>
  /\ UNCHANGED <<serverVars, uri, uriRet>>

(* ---- gst_srt_client_src_start ---- *)

(* The step of the client's start that fails ("none": every step
   succeeds). *)
ClientFailPoints ==
  {"none", "host", "parse", "socket", "poll", "family", "connect"}

(* Steps after which the socket has been created. *)
ClientAfterSocket == {"none", "poll", "family", "connect"}

(* Steps at which start closes the socket again before leaving. *)
ClientClosesSocket == {"poll", "family", "connect"}

(* Steps after which the poll id has been created. *)
ClientAfterPoll == {"none", "family", "connect"}

(* The value start returns: ret is initialised TRUE and set FALSE on the
   failure paths that assign it. *)
ClientStartRet(failAt) ==
  IF failAt \in {"host", "parse", "socket", "family", "connect"}
  THEN FALSE ELSE TRUE

ClientStart(failAt) ==
  /\ c_phase \in {"null", "stopped"}
  /\ Events < MaxEvents
  /\ failAt \in FailPointsFor(c_uri, ClientFailPoints)
  /\ c_calls' = c_calls + 1
  /\ c_startRet' = ClientStartRet(failAt)
  /\ c_phase' = IF ClientStartRet(failAt) THEN "started" ELSE c_phase
  /\ c_stopCalls' = IF ClientStartRet(failAt) THEN 0 ELSE c_stopCalls
  /\ c_srt_sock' = IF failAt = "socket" THEN "error"
                   ELSE IF failAt \in ClientClosesSocket THEN "closed"
                   ELSE IF failAt \in ClientAfterSocket THEN "open"
                   ELSE c_srt_sock
  /\ c_sockCloses' = IF failAt \in ClientClosesSocket THEN 1
                     ELSE IF failAt \in ClientAfterSocket \/ failAt = "socket"
                     THEN 0
                     ELSE c_sockCloses
  /\ c_srt_poll_id' = IF failAt = "poll" THEN "error"
                      ELSE IF failAt \in ClientAfterPoll THEN "open"
                      ELSE c_srt_poll_id
  /\ c_pollReleases' = IF failAt \in ClientAfterPoll \/ failAt = "poll"
                       THEN 0 ELSE c_pollReleases
  /\ UNCHANGED <<c_uri, c_uriRet, recv_len, fillRet, fillStep, outbuf>>
  /\ UNCHANGED <<serverVars, uriVars>>

(* ---- gst_srt_client_src_fill ---- *)

(* What srt_recvmsg can return for a buffer of BlockSize bytes. *)
RecvResults == {SRT_ERROR} \cup (0..BlockSize)

(* The steps at which fill can leave: the readiness wait fails, the buffer
   cannot be mapped, or srt_recvmsg has returned.  A poll id that is not
   open only fails the wait. *)
FillSteps ==
  IF c_srt_poll_id = "open" THEN {"wait", "map", "recv"} ELSE {"wait"}

(* A fill that calls srt_recvmsg whatever the wait and the mapping
   returned. *)
FillReceivesAlways(step) == TRUE

(* srt_recvmsg is called when neither the readiness wait nor the mapping
   made fill leave. *)
FillReceives(step) == step = "recv"

(* A fill that reports a receive of zero bytes as an error. *)
FillRetZeroIsError(n) ==
  IF n = SRT_ERROR \/ n = 0 THEN GST_FLOW_ERROR ELSE GST_FLOW_OK

(* The flow status for the result of srt_recvmsg. *)
FillRetOfRecv(n) ==
  IF n = SRT_ERROR THEN GST_FLOW_ERROR
  ELSE IF n = 0 THEN GST_FLOW_EOS
  ELSE GST_FLOW_OK

(* GstPushSrc calls fill with a fresh buffer of BlockSize bytes between a
   successful start and stop. *)
ClientFill(step, n) ==
  /\ c_phase = "started"
  /\ Events < MaxEvents
  /\ step \in FillSteps
  /\ n \in RecvResults
  /\ c_calls' = c_calls + 1
  /\ fillStep' = step
  /\ recv_len' = IF FillReceives(step) THEN <<n>> ELSE <<>>
  /\ fillRet' = IF FillReceives(step) THEN FillRetOfRecv(n)
               ELSE GST_FLOW_ERROR
  /\ outbuf' = IF FillReceives(step) /\ n # SRT_ERROR /\ n # 0
               THEN [pts |-> "running-time", size |-> n]
               ELSE [pts |-> "none", size |-> BlockSize]
  /\ UNCHANGED <<c_phase, c_uri, c_uriRet, c_srt_sock, c_srt_poll_id,
                 c_startRet, c_stopCalls, c_sockCloses, c_pollReleases>>
  /\ UNCHANGED <<serverVars, uriVars>>

(* ---- gst_srt_client_src_stop ---- *)

(* The whole body: srt_epoll_remove_usock, srt_epoll_release, srt_close,
   with no test of the handles. *)
ClientStopBody ==
  /\ c_stopCalls' = c_stopCalls + 1
  /\ c_pollReleases' = IF c_srt_poll_id \in {"open", "released"}
                       THEN c_pollReleases + 1 ELSE c_pollReleases
  /\ c_srt_poll_id' = IF c_srt_poll_id = "open" THEN "released"
                      ELSE c_srt_poll_id
  /\ c_sockCloses' = IF c_srt_sock \in {"open", "closed"}
                     THEN c_sockCloses + 1 ELSE c_sockCloses
  /\ c_srt_sock' = IF c_srt_sock = "open" THEN "closed" ELSE c_srt_sock
  /\ c_phase' = IF c_phase = "null" THEN "null" ELSE "stopped"
  /\ UNCHANGED <<c_uri, c_uriRet, c_startRet, c_calls, recv_len, fillRet,
                 fillStep, outbuf>>
  /\ UNCHANGED <<serverVars, uriVars>>

(* GstBaseSrc calls stop once after a successful start. *)
ClientStop == c_phase = "started" /\ ClientStopBody

(* A call of stop on a connector that is stopped or was never started. *)
ClientStopAgain ==
  /\ c_phase \in {"null", "stopped"}
  /\ c_stopCalls < 2
  /\ ClientStopBody

(* ---- use of freed memory ---- *)

Freed(nodes) == \E n \in nodes : life[n] = "freed"

(* A step that is about to read or write a freed list node or client. *)
TouchesFreed ==
  \/ /\ d_pc = "send" /\ d_clients # NULL
     /\ Freed({d_clients} \cup Visited(clients, d_clients))
  \/ /\ s_pc = "free" /\ Freed(Registered)
  \/ /\ s_pc = "idle" /\ phase = "started" /\ Freed(Registered)
  \/ /\ a_pc = "store" /\ Freed({a_client})
  \/ /\ a_pc = "idle" /\ t_pc = "run" /\ server_source = "armed"
     /\ srt_poll_id = "open" /\ sock = "open" /\ Events < MaxEvents
     /\ Freed(Registered)

(* The use of freed memory faults instead of reading the stale contents. *)
SegFault ==
  /\ ~crashed
  /\ TouchesFreed
  /\ crashed' = TRUE
  /\ UNCHANGED <<callVars, privVars, listVars, queued_buffers, mutex, tasks,
                 dispVars, accVars, s_pc, sockObs, sigObs, renderObs,
                 recv, unitObs, accObs>>
  /\ UNCHANGED <<uriVars, clientVars>>

(* ---- specifications ---- *)

Next ==
  \/ \E failAt \in FailPoints : Start(failAt)
  \/ Render
  \/ SendBufferBegin
  \/ SendBufferLock
  \/ \E mapped \in BOOLEAN : SendBufferMap(mapped)
  \/ \E sent \in BOOLEAN : SendBufferSend(sent)
  \/ SendBufferUnmap
  \/ SendBufferFinish
  \/ SendBufferReturn
  \/ \E outcome \in {"timeout", "pollerr", "acceptfail", "accepted"} :
       IdleListen(outcome)
  \/ IdleListenStore
  \/ ThreadRun
  \/ ThreadExit
  \/ StopNotify
  \/ StopFree
  \/ StopClose
  \/ StopJoin
  \/ SegFault

Spec == Init /\ [][Next]_vars

(* The second call of stop faults on the freed list. *)
StopAgainSegFault ==
  /\ ~crashed
  /\ s_pc = "idle" /\ phase = "stopped" /\ stopCalls = 1
  /\ Freed(Registered)
  /\ crashed' = TRUE
  /\ UNCHANGED <<callVars, privVars, listVars, queued_buffers, mutex, tasks,
                 dispVars, accVars, s_pc, sockObs, sigObs, renderObs,
                 recv, unitObs, accObs>>
  /\ UNCHANGED <<uriVars, clientVars>>

(* The same program, with a caller that calls stop a second time. *)
NextStopTwice == Next \/ StopAgainNotify \/ StopAgainSegFault

SpecStopTwice == Init /\ [][NextStopTwice]_vars

(* Configuration and start of both elements, and the client source's
   fill and stop: the URI handlers set the URIs that start reads. *)
NextSetup ==
  \/ \E str \in UriStrings : ServerSetUri(str)
  \/ \E failAt \in FailPoints : Start(failAt)
  \/ \E str \in UriStrings : ClientSetUri(str)
  \/ \E failAt \in ClientFailPoints : ClientStart(failAt)
  \/ \E step \in {"wait", "map", "recv"} :
       \E n \in RecvResults : ClientFill(step, n)
  \/ ClientStop

SpecSetup == Init /\ [][NextSetup]_vars

(* The same, with a caller that calls the client source's stop when it is
   not started. *)
NextSetupStopTwice == NextSetup \/ ClientStopAgain

SpecSetupStopTwice == Init /\ [][NextSetupStopTwice]_vars

(* srt_epoll_wait on a poll id that has been released fails at once, also
   for a caller already waiting in it with no timeout. *)
ListenAfterRelease == srt_poll_id # "open" /\ IdleListen("pollerr")

(* The same program under a scheduler that lets every thread that can take
   a step take it eventually: the background thread, and the thread inside
   stop. *)
SpecFair ==
  /\ Init /\ [][Next]_vars
  /\ WF_vars(ThreadRun)
  /\ WF_vars(ListenAfterRelease)
  /\ WF_vars(IdleListenStore)
  /\ WF_vars(ThreadExit)
  /\ WF_vars(StopFree)
  /\ WF_vars(StopClose)
  /\ WF_vars(StopJoin)

(* ---- properties ---- *)

(* Dispatch tasks that are attached and have not yet emptied the queue. *)
TasksWithWork == tasks - (IF d_pc = "return" THEN 1 ELSE 0)

(* A dispatch unit has just emptied the queue, and no task with work to do
   is left. *)
Drained == d_pc = "return" /\ queued_buffers = <<>> /\ TasksWithWork = 0

(* The session's accept unit has completed, it has not been released (a
   failed write releases it), and it is still registered. *)
Surviving(c) == c \in LiveRegistered /\ addedN[c] > 0

(* The session has been written buffer b successfully, as its latest
   delivery. *)
Delivered(c, b) == recv[c] # <<>> /\ recv[c][1] = b

(* C1: once every scheduled dispatch has finished, each surviving session
   has been written the latest buffer rendered after its acceptance (a
   buffer that could not be mapped aside). *)
C1_NoLoss ==
  Drained =>
    \A c \in ClientIds :
      (Surviving(c) /\ acceptedAt[c] < nRender /\ nRender \notin mapFailed)
        => Delivered(c, nRender)

(* C2: every session whose accept unit completed before a buffer was
   rendered and whose write of that buffer succeeded received the buffer's
   bytes, so all of them hold identical content. *)
C2_BroadcastIdentical ==
  \A b \in BufferIds :
    \A c \in ClientIds :
      (addedN[c] > 0 /\ acceptedAt[c] < b /\ Delivered(c, b))
        => recv[c][2] = Bytes(b)

(* C2 witness: two sessions registered before the render of a buffer have
   both been written it successfully. *)
C2_Witness ==
  \E b \in BufferIds :
    Cardinality({c \in ClientIds :
                   addedN[c] > 0 /\ acceptedAt[c] < b /\ Delivered(c, b)})
      >= 2

(* C3: at the step that completes a dispatch unit, every session whose
   write failed in the unit is out of the registry, and every other session
   that was registered when the unit began has been written the unit's
   buffer. *)
C3_FaultIsolation ==
  [][SendBufferFinish =>
       /\ \A k \in unitFailed : k \notin Registered'
       /\ unitFailed # {} =>
            \A c \in unitReg \ unitFailed :
              \A b \in Range(queued_buffers) \ mapFailed : Delivered(c, b)]_vars

(* C4: a render call that finds the pending queue non-empty appends its
   buffer behind the buffers already queued and attaches no further task. *)
C4_Coalescing ==
  [][(Render /\ queued_buffers # <<>>) =>
       /\ queued_buffers' = Append(queued_buffers, nRender')
       /\ tasks' = tasks]_vars

(* C5: at most one dispatch task with work to do is outstanding. *)
C5_OneOutstandingTask == TasksWithWork <= 1

(* C5 witness: render has been called twice before any dispatch unit ran,
   and one task is attached. *)
C5_Witness == nRender >= 2 /\ begun = 0 /\ tasks = 1 /\ d_pc = "idle"

(* C6: after a start in which every step succeeded, two calls of stop fault
   nowhere, unref no released session again, and close no session socket,
   listening socket or poll id more than once. *)
C6_IdempotentStop ==
  (stopCalls = 2 /\ startRet /\ srt_poll_id \in {"open", "released"}) =>
    /\ ~crashed
    /\ sockCloses <= 1
    /\ pollReleases <= 1
    /\ \A c \in ClientIds :
         /\ closeN[c] <= 1
         /\ life[c] = "freed" => ref_count[c] = UInt(0)

(* C7: "client-removed" is emitted at most once per session, and exactly
   once for a session whose write has failed. *)
C7_RemovedExactlyOnce ==
  \A c \in ClientIds :
    /\ removedN[c] <= 1
    /\ c \in unitFailed => removedN[c] = 1

(* C8: no session is written a buffer whose dispatch unit had begun before
   the session was accepted. *)
C8_NoRetroactiveDelivery ==
  d_pc = "send" =>
    \A c \in ClientIds : Delivered(c, Head(d_buffers)) => c \in unitAccepted

(* C9: a run of the accept unit in which srt_accept fails leaves the unit
   armed. *)
C9_AcceptFailureKeepsArmed ==
  [][IdleListen("acceptfail") => server_source' = "armed"]_vars

(* C10: every call of render returns GST_FLOW_OK. *)
C10_RenderReturnsOK == nRender > 0 => renderRet = GST_FLOW_OK

(* C10 witness: with no stop in between, a write has failed, the registry
   is empty, and a later render call has returned and left its buffer queued
   for a dispatch unit that has not begun. *)
C10_Witness ==
  /\ nStarts = 1
  /\ phase = "started"
  /\ nRender >= 2
  /\ \E c \in ClientIds : removedN[c] > 0 /\ closeN[c] > 0
  /\ Registered = {}
  /\ nRender \in Range(queued_buffers)
  /\ nRender > begun

(* C11: a call of stop that has begun returns (unless the process faults),
   and once it has returned the background thread is gone and no accept
   unit is running. *)
C11_StopTerminates ==
  /\ [](phase = "stopped" /\ s_pc = "idle"
        => t_pc \notin {"entry", "run"} /\ a_pc = "idle")
  /\ (s_pc # "idle" /\ ~crashed) ~> (s_pc = "idle" \/ crashed)

(* C12: in both elements, a call of start returns TRUE exactly when none of
   its steps failed. *)
C12_StartReportsFailure ==
  [][/\ \A failAt \in FailPoints :
          Start(failAt) => (startRet' = (failAt = "none"))
     /\ \A failAt \in ClientFailPoints :
          ClientStart(failAt) => (c_startRet' = (failAt = "none"))]_vars

(* C13: when a call of start fails at some step, what that call had
   created before is released when it returns: the socket, the poll id,
   and the loop, its context and the accept source. *)
C13_FailedStartReleases ==
  [][/\ \A failAt \in FailPoints \ {"none"} :
          Start(failAt) =>
            /\ failAt \in AfterSocket => sock' # "open"
            /\ failAt \in AfterPoll => srt_poll_id' # "open"
            /\ failAt \in AfterLoop =>
                 ~loop' /\ ~context' /\ server_source' # "armed"
     /\ \A failAt \in ClientFailPoints \ {"none"} :
          ClientStart(failAt) =>
            /\ failAt \in ClientAfterSocket => c_srt_sock' # "open"
            /\ failAt \in ClientAfterPoll => c_srt_poll_id' # "open"]_vars

(* The buffer as it was handed to fill: not stamped, not resized. *)
Untouched(buf) == buf.pts = "none" /\ buf.size = BlockSize

(* C14: after a fill in which srt_recvmsg was called, a result of zero
   gave GST_FLOW_EOS and an error gave GST_FLOW_ERROR, both with the buffer
   untouched, and a result n > 0 gave GST_FLOW_OK with the buffer stamped
   and resized to n bytes. *)
C14_FillStatus ==
  recv_len # <<>> =>
    LET n == recv_len[1] IN
      /\ n = 0 => fillRet = GST_FLOW_EOS /\ Untouched(outbuf)
      /\ n = SRT_ERROR => fillRet = GST_FLOW_ERROR /\ Untouched(outbuf)
      /\ n > 0 =>
           /\ fillRet = GST_FLOW_OK
           /\ outbuf.pts # "none"
           /\ outbuf.size = n

(* C14 witness: a fill has returned GST_FLOW_OK for a receive shorter than
   the buffer. *)
C14_Witness ==
  /\ recv_len # <<>>
  /\ recv_len[1] > 0 /\ recv_len[1] < BlockSize
  /\ fillRet = GST_FLOW_OK

(* C15: a call of the client source's stop while it is not started
   releases no poll id and closes no socket. *)
C15_ClientStopIdempotent ==
  [][ClientStopAgain =>
       /\ c_sockCloses' = c_sockCloses
       /\ c_pollReleases' = c_pollReleases]_vars

(* C16: in both elements, set_uri with a string whose scheme is not "srt"
   returns FALSE and leaves the URI as it was, and start with a URI that
   lacks host or port returns FALSE and creates neither socket nor poll
   id. *)
C16_ConfigErrorsRejected ==
  [][/\ \A str \in UriStrings :
          gst_uri_from_string(str).scheme # SRT_URI_SCHEME =>
            /\ ServerSetUri(str) => uri' = uri /\ ~uriRet'
            /\ ClientSetUri(str) => c_uri' = c_uri /\ ~c_uriRet'
     /\ ~HasHostAndPort(uri) =>
          \A failAt \in FailPoints :
            Start(failAt) =>
              ~startRet' /\ sock' = sock /\ srt_poll_id' = srt_poll_id
     /\ ~HasHostAndPort(c_uri) =>
          \A failAt \in ClientFailPoints :
            ClientStart(failAt) =>
              /\ ~c_startRet'
              /\ c_srt_sock' = c_srt_sock
              /\ c_srt_poll_id' = c_srt_poll_id]_vars

(* C16 witness: the server's URI was set to one without a port, a later
   set_uri was rejected and left it in place, and start has failed with no
   socket and no poll id. *)
C16_Witness ==
  /\ ~uriRet
  /\ ~HasHostAndPort(uri)
  /\ nStarts > 0 /\ ~startRet
  /\ sock = "none" /\ srt_poll_id = "none"

(* C17: outside the body of stop, every session reachable from
   priv->clients has a reference count of at least 1; a session's socket is
   closed at most once, and only by the unref that takes the count to
   zero and frees the session. *)
C17_SessionLifecycle ==
  \A c \in ClientIds :
    /\ (s_pc = "idle" /\ c \in Registered) => UIntPositive(ref_count[c])
    /\ closeN[c] <= 1
    /\ closeN[c] = 1 => life[c] = "freed"

(* A step that changes the client list: its head, a next pointer, or the
   freeing of a registered session's node. *)
MutatesRegistry ==
  \/ clients' # clients
  \/ next' # next
  \/ \E c \in Registered : life[c] = "live" /\ life'[c] = "freed"

(* C18: every step that changes the client list is taken by the holder of
   the mutex (the only holder across steps is the dispatch unit), and no
   session is written after "client-removed" was emitted for it. *)
C18_RegistryUnderMutex ==
  [][/\ MutatesRegistry =>
          mutex = "dispatch" /\ \E sent \in BOOLEAN : SendBufferSend(sent)
     /\ \A sent \in BOOLEAN :
          SendBufferSend(sent) => removedN[d_clients] = 0]_vars

(* C19: while the dispatch unit is at a session write, the mutex is
   free. *)
C19_NoLockAcrossIO == (d_pc = "send" /\ d_clients # NULL) => mutex = "free"

(* C20: the dispatch unit runs only while the background thread is in its
   loop, and never while the accept unit is inside its callback. *)
C20_UnitsNeverConcurrent ==
  d_pc # "idle" => t_pc = "run" /\ a_pc = "idle"

(* C21: a run of the accept unit that meets a timeout accepts nothing,
   leaves the client list as it was, emits no signal and leaves the unit
   armed. *)
C21_TimeoutIsNormal ==
  [][IdleListen("timeout") =>
       /\ UNCHANGED <<clients, next, life, ref_count>>
       /\ UNCHANGED <<addedN, removedN>>
       /\ a_pc' = "idle"
       /\ server_source' = "armed"]_vars

(* C21 witness: with one session registered, the accept unit has met a
   timeout as its last outcome and is armed. *)
C21_Witness ==
  /\ lastListen = "timeout"
  /\ Registered # {}
  /\ server_source = "armed"

(* C22: a run of the accept unit whose readiness wait fails with an error
   other than a timeout attempts no accept and leaves the unit armed. *)
C22_PollErrorKeepsArmed ==
  [][IdleListen("pollerr") =>
       /\ UNCHANGED <<clients, next, life, ref_count>>
       /\ server_source' = "armed"]_vars

(* C23: the step that stores an accepted session and emits "client-added"
   is not taken inside another thread's critical section, finds the
   session with reference count 1, and leaves the session as the last entry
   of the client list, behind the entries the list had before. *)
C23_AcceptInsertsThenNotifies ==
  [][IdleListenStore =>
       /\ mutex # "dispatch"
       /\ ref_count[a_client] = NewCount
       /\ Registry' # <<>>
       /\ Registry'[Len(Registry')] = a_client
       /\ SelectSeq(Registry', LAMBDA c : c # a_client)
            = SelectSeq(Registry, LAMBDA c : c # a_client)]_vars

(* C24: once stop has returned, the client list is empty and every session
   accepted so far has been freed and its socket closed once. *)
C24_StopReleasesAll ==
  (phase = "stopped" /\ s_pc = "idle") =>
    /\ Registered = {}
    /\ \A c \in ClientIds :
         life[c] # "none" => life[c] = "freed" /\ closeN[c] = 1

(* C25: the pending queue grows only from empty to one buffer, and it
   never holds more than one buffer. *)
C25_QueueAtMostOne ==
  /\ [](Len(queued_buffers) <= 1)
  /\ [][Len(queued_buffers') > Len(queued_buffers) =>
         queued_buffers = <<>> /\ Len(queued_buffers') = 1]_vars

(* C25 witness: render was called while the queue held an earlier buffer,
   and the queue still holds that buffer alone. *)
C25_Witness ==
  /\ nRender >= 2
  /\ Len(queued_buffers) = 1
  /\ queued_buffers[1] < nRender

(* C26: at the step that releases the queue, every buffer in it has been
   written, or tried and failed, to every session that was registered when
   the unit began and has not been released by stop since. *)
C26_ReleasedAfterBroadcast ==
  [][SendBufferFinish =>
       \A b \in Range(queued_buffers) :
         \A c \in unitReg :
           \/ c \in unitFailed
           \/ Delivered(c, b)
           \/ c \notin LiveRegistered]_vars

(* C27: srt_recvmsg has been called only in a fill whose readiness wait
   succeeded, and a fill whose readiness wait failed returned
   GST_FLOW_ERROR, called no receive and left the buffer's size and
   timestamp as they were. *)
C27_ReceiveAfterWait ==
  /\ recv_len # <<>> => fillStep = "recv"
  /\ fillStep = "wait" =>
       /\ fillRet = GST_FLOW_ERROR
       /\ recv_len = <<>>
       /\ Untouched(outbuf)

(* C27 witness: on a started source whose poll id is open, after an earlier
   fill, the last fill left at the failed readiness wait. *)
C27_Witness ==
  /\ c_phase = "started"
  /\ c_srt_poll_id = "open"
  /\ c_calls >= 3
  /\ fillStep = "wait"

(* C28: while the pending queue holds a buffer, a dispatch task that has
   not yet emptied the queue is attached. *)
C28_QueueHasTask == queued_buffers # <<>> => TasksWithWork >= 1

(* C28 witness: the accept unit ran under a first start, stop joined that
   thread, and under the second start, whose thread has not yet entered its
   loop, the queue holds a buffer and a task is attached for it. *)
C28_Witness ==
  /\ nStarts >= 2
  /\ phase = "started"
  /\ s_pc = "idle"
  /\ lastListen # "none"
  /\ t_pc = "entry"
  /\ queued_buffers # <<>>
  /\ TasksWithWork = 1

(* C29: the dispatcher writes only to sessions that are allocated and whose
   socket has not been closed. *)
C29_NoWriteAfterClose ==
  [][\A sent \in BOOLEAN :
       SendBufferSend(sent) =>
         life[d_clients] = "live" /\ closeN[d_clients] = 0]_vars

(* C30: at the step that ends the dispatcher's pass over the client list,
   every session that was registered when the unit began has been written,
   or tried, exactly once. *)
C30_EachWrittenOnce ==
  [][SendBufferUnmap => \A c \in unitReg : unitWrites[c] = 1]_vars

(* C30 witness: a unit began with two sessions registered; the write to the
   earlier one failed and removed it, the later one was then written the
   buffer, each was tried once, and the pass has ended. *)
C30_Witness ==
  /\ d_pc = "return"
  /\ a_pc = "idle"
  /\ s_pc = "idle"
  /\ stopCalls = 0
  /\ \E k \in unitReg :
       \E c \in unitReg :
         /\ k < c
         /\ k \in unitFailed
         /\ c \notin unitFailed
         /\ unitWrites[k] = 1
         /\ unitWrites[c] = 1
         /\ Delivered(c, begun)

(* C31: every step that emits "client-removed" for a session finds the
   session allocated and its socket not yet closed. *)
C31_RemovedBeforeClose ==
  [][\A c \in ClientIds :
       removedN'[c] > removedN[c] => life[c] = "live" /\ closeN[c] = 0]_vars

====
